---- MODULE Spec2Model ----
(***************************************************************************)
(* Model of trezorlib.stellar.sign_tx: the multi-step signing exchange     *)
(* between the host (holding a header `tx` and a mutable list              *)
(* `operations`) and the device reached through client.call.               *)
(*                                                                         *)
(* client.call(msg) is a blocking send followed by a blocking receive; it  *)
(* is modelled as a send step (the message is handed to the transport)     *)
(* and a step in which the call either returns a response message or       *)
(* raises an exception.                                                    *)
(***************************************************************************)
EXTENDS Integers, Sequences, FiniteSets, TLC

\* ---------------------------------------------------------------- bounds
MaxOps == 3          \* longest operations list the caller supplies
MaxCalls == 2        \* number of sign_tx calls made one after another

\* ------------------------------------------------------------ vocabulary
None == "None"

\* Operation messages are opaque to sign_tx: it only sends and counts them.
OpSet == {"StellarPaymentOp", "StellarBumpSequenceOp"}

RECURSIVE SeqsUpTo(_, _)
SeqsUpTo(S, n) ==
    IF n = 0 THEN {<<>>}
    ELSE LET shorter == SeqsUpTo(S, n - 1)
         IN  shorter \cup {Append(s, x) : s \in {t \in shorter : Len(t) = n - 1}, x \in S}

OpLists == SeqsUpTo(OpSet, MaxOps)

DEFAULT_NETWORK_PASSPHRASE == "Public Global Stellar Network ; September 2015"
Passphrases == {DEFAULT_NETWORK_PASSPHRASE, "Test SDF Network ; September 2015"}
DEFAULT_BIP32_PATH == "m/44h/148h/0h"
AddressNs == {DEFAULT_BIP32_PATH, "m/44h/148h/1h"}

\* Messages client.call can return.  sign_tx distinguishes them by class
\* only: StellarTxOpRequest, StellarSignedTx, anything else.
\* Header fields sign_tx does not assign are represented by the fee.
Fees == {100, 200}

Signatures == {"sigA", "sigB"}
OtherTypes == {"StellarAddress", "ButtonRequest"}
Responses ==
    {[type |-> "StellarTxOpRequest", sig |-> None]}
    \cup {[type |-> "StellarSignedTx", sig |-> s] : s \in Signatures}
    \cup {[type |-> t, sig |-> None] : t \in OtherTypes}
NoResp == [type |-> None, sig |-> None]

\* Exceptions client.call can raise.  The transport is outside sign_tx, so
\* any exception class may come out of it.  The message of an exception is
\* a pair: its text and the argument formatted into it, if any.
TransportErrors ==
    { [exc |-> "TransportException", msg |-> <<"device disconnected", None>>],
      [exc |-> "OSError",            msg |-> <<"read timeout", None>>],
      [exc |-> "IndexError",         msg |-> <<"index out of range", None>>] }
NoErr == [exc |-> None, msg |-> <<None, None>>]

\* list.pop(0) on an empty list.
PopIndexError == [exc |-> "IndexError", msg |-> <<"pop from empty list", None>>]

\* The three TrezorExceptions sign_tx raises itself.
ExhaustedError ==
    [exc |-> "TrezorException", msg |-> <<"Reached end of operations without a signature.", None>>]
UnexpectedMsg(r) == <<"Unexpected message: {}", r.type>>
UnexpectedError(r) == [exc |-> "TrezorException", msg |-> UnexpectedMsg(r)]
PrematureError ==
    [exc |-> "TrezorException", msg |-> <<"Received a signature before processing all operations.", None>>]

\* How a call of sign_tx ends.
NoOutcome == [kind |-> "none", err |-> NoErr, value |-> NoResp]
Return(r) == [kind |-> "return", err |-> NoErr, value |-> r]
Raise(e) == [kind |-> "raise", err |-> e, value |-> NoResp]

\* ----------------------------------------------------------------- state
VARIABLES
    tx,                  \* the header object (StellarSignTx) of the caller
    operations,          \* the caller's list object, popped from the front
    address_n,           \* argument address_n
    network_passphrase,  \* argument network_passphrase
    resp,                \* local variable resp
    pc,                  \* position in sign_tx
    outcome,             \* how the call ended
    sent,                \* messages handed to client.call, in order
    received,            \* responses client.call returned, in order
    terr,                \* the exception client.call raised, if it did
    orig,                \* the operations list as it was on entry
    call,                \* which call of sign_tx this is
    tx_entry,            \* the header object as it was on entry
    supplied,            \* the list object's content when first passed in
    reused,              \* this call was given the previous call's list object
    prev_pc,             \* how the previous call ended, "none" for the first
    HAVE_STELLAR_SDK,    \* module flag set by the import of stellar_sdk
    envelope,            \* argument of from_envelope
    fe_pc,               \* position in from_envelope
    fe_tx,               \* local tx of from_envelope, the header being built
    fe_operations,       \* the list built by line 107, as far as it got
    fe_exc               \* class of the exception from_envelope raised

\* What is fixed for the duration of one call of sign_tx.
callVars == <<tx_entry, supplied, reused, prev_pc>>

\* The state of sign_tx and the state of from_envelope.
signVars == <<tx, operations, address_n, network_passphrase, resp, pc, outcome,
              sent, received, terr, orig, call, callVars>>
envVars == <<HAVE_STELLAR_SDK, envelope, fe_pc, fe_tx, fe_operations, fe_exc>>

vars == <<signVars, envVars>>

Terminal == {"done", "failed"}

\* ------------------------------------------------------- pure sub-steps
\* isinstance(resp, cls)
IsInstance(r, cls) == r.type = cls

\* while isinstance(resp, messages.StellarTxOpRequest)
LoopCondNotSigned(r) == ~IsInstance(r, "StellarSignedTx")
LoopCond(r) == IsInstance(r, "StellarTxOpRequest")

\* isinstance(resp, messages.StellarSignedTx)
IsSignedTxLoose(r) == ~IsInstance(r, "StellarTxOpRequest")
IsSignedTx(r) == IsInstance(r, "StellarSignedTx")

\* `if operations:` - truth value of a list
TruthyOffByOne(ops) == Len(ops) > 1
TruthyAlways(ops) == Len(ops) >= 0
Truthy(ops) == Len(ops) > 0

\* operations.pop(0): the element returned and the list left behind
PopItemLast(ops) == ops[Len(ops)]
PopItem(ops) == ops[1]
PopRestKeep(ops) == ops
PopRestDropTwo(ops) == SubSeq(ops, 3, Len(ops))
PopRest(ops) == SubSeq(ops, 2, Len(ops))

\* try: ... except IndexError: raise TrezorException(...) from None
\* applied to an exception e raised inside the try block
NoExcept(e) == e
ExceptIndexError(e) ==
    IF e.exc = "IndexError" THEN ExhaustedError ELSE e

\* Whether the call in flight is the one inside the try block (line 282)
\* rather than the header call (line 279).
InTry == Len(sent) > 1

\* from_envelope has not been called.
NoHeader == [memo_type |-> -1, num_operations |-> -1]
EnvIdle ==
    /\ HAVE_STELLAR_SDK = TRUE
    /\ envelope = [memo |-> [kind |-> "NoneMemo", utf8 |-> TRUE], operations |-> <<>>]
    /\ fe_pc = "idle"
    /\ fe_tx = NoHeader
    /\ fe_operations = <<>>
    /\ fe_exc = None

\* ------------------------------------------------------------------ Init
Init ==
    /\ tx \in [network_passphrase : {None, "Test SDF Network ; September 2015"},
               address_n : {None},
               num_operations : 0..MaxOps,
               fee : Fees]
    /\ operations \in OpLists
    /\ address_n \in AddressNs
    /\ network_passphrase \in Passphrases
    /\ resp = NoResp
    /\ pc = "entry"
    /\ outcome = NoOutcome
    /\ sent = <<>>
    /\ received = <<>>
    /\ terr = NoErr
    /\ orig = operations
    /\ call = 1
    /\ tx_entry = tx
    /\ supplied = operations
    /\ reused = FALSE
    /\ prev_pc = "none"
    /\ EnvIdle

\* --------------------------------------------------------------- actions
\* Lines 269-279: fill in the header and hand it to client.call.
SignTxCallHeaderClobber ==
    /\ pc = "entry"
    /\ tx' = [network_passphrase |-> network_passphrase,
              address_n |-> address_n,
              num_operations |-> Len(operations),
              fee |-> 0]
    /\ sent' = Append(sent, [kind |-> "header", body |-> tx'])
    /\ pc' = "call"
    /\ UNCHANGED <<operations, address_n, network_passphrase, resp, outcome,
                   received, terr, orig, call, callVars, envVars>>
SignTxCallHeaderSendFirst ==
    /\ pc = "entry"
    /\ tx' = [tx EXCEPT !.network_passphrase = network_passphrase,
                         !.address_n = address_n,
                         !.num_operations = Len(operations)]
    /\ sent' = Append(sent, [kind |-> "header",
                             body |-> [tx' EXCEPT !.num_operations = tx.num_operations]])
    /\ pc' = "call"
    /\ UNCHANGED <<operations, address_n, network_passphrase, resp, outcome,
                   received, terr, orig, call, callVars, envVars>>
SignTxCallHeaderKeepCount ==
    /\ pc = "entry"
    /\ tx' = [tx EXCEPT !.network_passphrase = network_passphrase,
                         !.address_n = address_n]
    /\ sent' = Append(sent, [kind |-> "header", body |-> tx'])
    /\ pc' = "call"
    /\ UNCHANGED <<operations, address_n, network_passphrase, resp, outcome,
                   received, terr, orig, call, callVars, envVars>>
SignTxCallHeader ==
    /\ pc = "entry"
    /\ tx' = [tx EXCEPT !.network_passphrase = network_passphrase,
                         !.address_n = address_n,
                         !.num_operations = Len(operations)]
    /\ sent' = Append(sent, [kind |-> "header", body |-> tx'])
    /\ pc' = "call"
    /\ UNCHANGED <<operations, address_n, network_passphrase, resp, outcome,
                   received, terr, orig, call>>
    /\ UNCHANGED <<callVars, envVars>>

\* client.call returns a message; it is assigned to resp (lines 279, 282).
CallReturns ==
    /\ pc = "call"
    /\ \E r \in Responses :
         /\ resp' = r
         /\ received' = Append(received, r)
    /\ pc' = "loop"
    /\ UNCHANGED <<tx, operations, address_n, network_passphrase, outcome,
                   sent, terr, orig, call>>
    /\ UNCHANGED <<callVars, envVars>>

\* client.call raises.  Outside the try block the exception leaves sign_tx
\* as it is; inside, the except clause of lines 283-287 sees it first.
CallRaises ==
    /\ pc = "call"
    /\ \E e \in TransportErrors :
         /\ terr' = e
         /\ outcome' = Raise(IF InTry THEN ExceptIndexError(e) ELSE e)
    /\ pc' = "failed"
    /\ UNCHANGED <<tx, operations, address_n, network_passphrase, resp,
                   sent, received, orig, call>>
    /\ UNCHANGED <<callVars, envVars>>

\* Lines 281-282, queue not empty: pop the front and hand it to client.call.
LoopCallOperation ==
    /\ pc = "loop"
    /\ LoopCond(resp)
    /\ Len(operations) > 0
    /\ sent' = Append(sent, [kind |-> "op", body |-> PopItem(operations)])
    /\ operations' = PopRest(operations)
    /\ pc' = "call"
    /\ UNCHANGED <<tx, address_n, network_passphrase, resp, outcome,
                   received, terr, orig, call>>
    /\ UNCHANGED <<callVars, envVars>>

\* Lines 281-287, queue empty: pop(0) raises IndexError, which is caught.
LoopSkipEmpty ==
    /\ pc = "loop"
    /\ LoopCond(resp)
    /\ Len(operations) = 0
    /\ UNCHANGED vars
LoopIndexError ==
    /\ pc = "loop"
    /\ LoopCond(resp)
    /\ Len(operations) = 0
    /\ outcome' = Raise(ExceptIndexError(PopIndexError))
    /\ pc' = "failed"
    /\ UNCHANGED <<tx, operations, address_n, network_passphrase, resp,
                   sent, received, terr, orig, call>>
    /\ UNCHANGED <<callVars, envVars>>

\* Lines 289-292: the loop ended on something that is not a signature.
RaiseUnexpectedAfterQueueCheck ==
    /\ pc = "loop"
    /\ ~LoopCond(resp)
    /\ ~IsSignedTx(resp)
    /\ outcome' = Raise(IF Truthy(operations) THEN PrematureError
                                              ELSE UnexpectedError(resp))
    /\ pc' = "failed"
    /\ UNCHANGED <<tx, operations, address_n, network_passphrase, resp,
                   sent, received, terr, orig, call, callVars, envVars>>
RaiseUnexpected ==
    /\ pc = "loop"
    /\ ~LoopCond(resp)
    /\ ~IsSignedTx(resp)
    /\ outcome' = Raise(UnexpectedError(resp))
    /\ pc' = "failed"
    /\ UNCHANGED <<tx, operations, address_n, network_passphrase, resp,
                   sent, received, terr, orig, call>>
    /\ UNCHANGED <<callVars, envVars>>

\* Lines 294-297: a signature while operations are left.
RaisePremature ==
    /\ pc = "loop"
    /\ ~LoopCond(resp)
    /\ IsSignedTx(resp)
    /\ Truthy(operations)
    /\ outcome' = Raise(PrematureError)
    /\ pc' = "failed"
    /\ UNCHANGED <<tx, operations, address_n, network_passphrase, resp,
                   sent, received, terr, orig, call>>
    /\ UNCHANGED <<callVars, envVars>>

\* Line 299: return resp.
ReturnResp ==
    /\ pc = "loop"
    /\ ~LoopCond(resp)
    /\ IsSignedTx(resp)
    /\ ~Truthy(operations)
    /\ outcome' = Return(resp)
    /\ pc' = "done"
    /\ UNCHANGED <<tx, operations, address_n, network_passphrase, resp,
                   sent, received, terr, orig, call>>
    /\ UNCHANGED <<callVars, envVars>>

\* The caller calls sign_tx again after the previous call has ended, with
\* the same header object and either the same list object or a new list.
NextCallResume ==
    /\ pc \in Terminal
    /\ call < MaxCalls
    /\ call' = call + 1
    /\ pc' = "call"
    /\ outcome' = NoOutcome
    /\ terr' = NoErr
    /\ prev_pc' = pc
    /\ reused' = TRUE
    /\ UNCHANGED <<tx, operations, address_n, network_passphrase, resp,
                   sent, received, orig, tx_entry, supplied, envVars>>
NextCall ==
    /\ pc \in Terminal
    /\ call < MaxCalls
    /\ call' = call + 1
    /\ \/ /\ reused' = TRUE
          /\ UNCHANGED <<operations, supplied>>
       \/ /\ reused' = FALSE
          /\ \E ops \in OpLists :
               /\ operations' = ops
               /\ supplied' = ops
    /\ orig' = operations'
    /\ tx_entry' = tx
    /\ prev_pc' = pc
    /\ resp' = NoResp
    /\ pc' = "entry"
    /\ outcome' = NoOutcome
    /\ sent' = <<>>
    /\ received' = <<>>
    /\ terr' = NoErr
    /\ UNCHANGED <<tx, address_n, network_passphrase, envVars>>

ExchangeStep ==
    \/ SignTxCallHeader
    \/ CallReturns
    \/ CallRaises
    \/ LoopCallOperation
    \/ LoopIndexError
    \/ RaiseUnexpected
    \/ RaisePremature
    \/ ReturnResp

Next ==
    \/ ExchangeStep
    \/ NextCall

Spec == Init /\ [][Next]_vars

\* Every transport call eventually returns or raises, and the interpreter
\* keeps executing sign_tx once it has been entered.
FairSpec == Spec /\ WF_vars(ExchangeStep)

\* ======================================================================
\* from_envelope: conversion of an SDK TransactionEnvelope into the header
\* and the list of operation messages that sign_tx takes.
\* ======================================================================
MaxEnvOps == 2       \* longest list of operations in an envelope

\* Memo types (lines 56-60)
MEMO_TYPE_NONE == 0
MEMO_TYPE_TEXT == 1
MEMO_TYPE_ID == 2
MEMO_TYPE_HASH == 3
MEMO_TYPE_RETURN == 4

\* Asset types (lines 63-65)
ASSET_TYPE_NATIVE == 0
ASSET_TYPE_ALPHA4 == 1
ASSET_TYPE_ALPHA12 == 2

Unset == -1

\* Memos of the SDK.  A TextMemo holds bytes, which need not be UTF-8.
MemoKinds == {"NoneMemo", "TextMemo", "IdMemo", "HashMemo", "ReturnHashMemo"}
Memos == {[kind |-> k, utf8 |-> TRUE] : k \in MemoKinds}
         \cup {[kind |-> "TextMemo", utf8 |-> FALSE]}

\* Operations of the SDK, with the fields whose value decides what
\* _read_operation does: the asset, the signer key type of SetOptions, the
\* flag and the length of the asset code of AllowTrust.
EnvOp(t, a, sg, au, cl) ==
    [type |-> t, asset |-> a, signer |-> sg, authorize |-> au, code_len |-> cl]
AssetKinds == {"native", "credit_alphanum4", "credit_alphanum12", "liquidity_pool_shares"}
SignerKinds == {None, "SIGNER_KEY_TYPE_ED25519", "SIGNER_KEY_TYPE_PRE_AUTH_TX",
                "SIGNER_KEY_TYPE_HASH_X", "SIGNER_KEY_TYPE_ED25519_SIGNED_PAYLOAD"}
EnvOps ==
    {EnvOp("CreateAccount", None, None, None, 0)}
    \cup {EnvOp("Payment", a, None, None, 0) : a \in AssetKinds}
    \cup {EnvOp("PathPaymentStrictReceive", "native", None, None, 0)}
    \cup {EnvOp("ManageSellOffer", "credit_alphanum12", None, None, 0)}
    \cup {EnvOp("CreatePassiveSellOffer", "native", None, None, 0)}
    \cup {EnvOp("SetOptions", None, sg, None, 0) : sg \in SignerKinds}
    \cup {EnvOp("ChangeTrust", "credit_alphanum4", None, None, 0)}
    \cup {EnvOp("AllowTrust", None, None, "UNAUTHORIZED_FLAG", 4),
          EnvOp("AllowTrust", None, None, "AUTHORIZED_FLAG", 4),
          EnvOp("AllowTrust", None, None, "AUTHORIZED_FLAG", 5),
          EnvOp("AllowTrust", None, None, "AUTHORIZED_TO_MAINTAIN_LIABILITIES_FLAG", 5)}
    \cup {EnvOp("AccountMerge", None, None, None, 0)}
    \cup {EnvOp("ManageData", None, None, None, 0)}
    \cup {EnvOp("BumpSequence", None, None, None, 0)}
    \cup {EnvOp("Inflation", None, None, None, 0)}

Envelopes == [memo : Memos, operations : SeqsUpTo(EnvOps, MaxEnvOps)]

\* .value of the SDK enumerations SignerKeyType and TrustLineEntryFlag
EnumValue(name) ==
    CASE name = "SIGNER_KEY_TYPE_ED25519" -> 0
      [] name = "SIGNER_KEY_TYPE_PRE_AUTH_TX" -> 1
      [] name = "SIGNER_KEY_TYPE_HASH_X" -> 2
      [] name = "SIGNER_KEY_TYPE_ED25519_SIGNED_PAYLOAD" -> 3
      [] name = "UNAUTHORIZED_FLAG" -> 0
      [] name = "AUTHORIZED_FLAG" -> 1
      [] name = "AUTHORIZED_TO_MAINTAIN_LIABILITIES_FLAG" -> 2

\* An operation message, or the exception raised instead of one.
OpMsg(cls, at, st, ia) ==
    [ok |-> TRUE, exc |-> None,
     msg |-> [type |-> cls, asset_type |-> at, signer_type |-> st, is_authorized |-> ia]]
OpError(e) ==
    [ok |-> FALSE, exc |-> e,
     msg |-> [type |-> None, asset_type |-> Unset, signer_type |-> Unset, is_authorized |-> Unset]]

\* _read_asset (lines 241-253): the asset type, or Unset when it raises.
ReadAsset(asset) ==
    CASE asset = "native" -> ASSET_TYPE_NATIVE
      [] asset = "credit_alphanum4" -> ASSET_TYPE_ALPHA4
      [] asset = "credit_alphanum12" -> ASSET_TYPE_ALPHA12
      [] OTHER -> Unset

\* A message that carries an asset read by _read_asset.
WithAsset(cls, asset) ==
    IF ReadAsset(asset) = Unset THEN OpError("ValueError")
    ELSE OpMsg(cls, ReadAsset(asset), Unset, Unset)

\* The flag check of lines 195-199.
AllowedTrustFlagsAny == {"UNAUTHORIZED_FLAG", "AUTHORIZED_FLAG",
                         "AUTHORIZED_TO_MAINTAIN_LIABILITIES_FLAG"}
AllowedTrustFlags == {"UNAUTHORIZED_FLAG", "AUTHORIZED_FLAG"}

\* _read_operation (lines 111-226)
ReadOperation(op) ==
    CASE op.type = "CreateAccount" -> OpMsg("StellarCreateAccountOp", Unset, Unset, Unset)
      [] op.type = "Payment" -> WithAsset("StellarPaymentOp", op.asset)
      [] op.type = "PathPaymentStrictReceive" -> WithAsset("StellarPathPaymentOp", op.asset)
      [] op.type = "ManageSellOffer" -> WithAsset("StellarManageOfferOp", op.asset)
      [] op.type = "CreatePassiveSellOffer" -> WithAsset("StellarCreatePassiveOfferOp", op.asset)
      [] op.type = "SetOptions" ->
            IF op.signer = None
            THEN OpMsg("StellarSetOptionsOp", Unset, Unset, Unset)
            ELSE IF op.signer \in {"SIGNER_KEY_TYPE_ED25519", "SIGNER_KEY_TYPE_HASH_X",
                                   "SIGNER_KEY_TYPE_PRE_AUTH_TX"}
            THEN OpMsg("StellarSetOptionsOp", Unset, EnumValue(op.signer), Unset)
            ELSE OpError("ValueError")
      [] op.type = "ChangeTrust" -> WithAsset("StellarChangeTrustOp", op.asset)
      [] op.type = "AllowTrust" ->
            IF op.authorize \notin AllowedTrustFlags
            THEN OpError("ValueError")
            ELSE OpMsg("StellarAllowTrustOp",
                       IF op.code_len <= 4 THEN ASSET_TYPE_ALPHA4 ELSE ASSET_TYPE_ALPHA12,
                       Unset, EnumValue(op.authorize))
      [] op.type = "AccountMerge" -> OpMsg("StellarAccountMergeOp", Unset, Unset, Unset)
      [] op.type = "ManageData" -> OpMsg("StellarManageDataOp", Unset, Unset, Unset)
      [] op.type = "BumpSequence" -> OpMsg("StellarBumpSequenceOp", Unset, Unset, Unset)
      [] OTHER -> OpError("ValueError")

\* The isinstance chain of lines 90-104
MemoTypeHashForReturn(memo) ==
    CASE memo.kind = "TextMemo" -> MEMO_TYPE_TEXT
      [] memo.kind = "IdMemo" -> MEMO_TYPE_ID
      [] memo.kind = "HashMemo" -> MEMO_TYPE_HASH
      [] memo.kind = "ReturnHashMemo" -> MEMO_TYPE_HASH
      [] OTHER -> MEMO_TYPE_NONE
MemoType(memo) ==
    CASE memo.kind = "TextMemo" -> MEMO_TYPE_TEXT
      [] memo.kind = "IdMemo" -> MEMO_TYPE_ID
      [] memo.kind = "HashMemo" -> MEMO_TYPE_HASH
      [] memo.kind = "ReturnHashMemo" -> MEMO_TYPE_RETURN
      [] OTHER -> MEMO_TYPE_NONE

\* sign_tx is not running while from_envelope is looked at.
SignIdle ==
    /\ tx = [network_passphrase |-> None, address_n |-> None,
             num_operations |-> 0, fee |-> 100]
    /\ tx_entry = tx
    /\ operations = <<>>
    /\ orig = <<>>
    /\ supplied = <<>>
    /\ address_n = DEFAULT_BIP32_PATH
    /\ network_passphrase = DEFAULT_NETWORK_PASSPHRASE
    /\ resp = NoResp
    /\ pc = "idle"
    /\ outcome = NoOutcome
    /\ sent = <<>>
    /\ received = <<>>
    /\ terr = NoErr
    /\ call = 0
    /\ reused = FALSE
    /\ prev_pc = "none"

EnvInit ==
    /\ SignIdle
    /\ HAVE_STELLAR_SDK \in BOOLEAN
    /\ envelope \in Envelopes
    /\ fe_pc = "entry"
    /\ fe_tx = NoHeader
    /\ fe_operations = <<>>
    /\ fe_exc = None

\* Lines 76-77: the SDK is missing.
FromEnvelopeNoSdk ==
    /\ fe_pc = "entry"
    /\ ~HAVE_STELLAR_SDK
    /\ fe_exc' = "RuntimeError"
    /\ fe_pc' = "raised"
    /\ UNCHANGED <<HAVE_STELLAR_SDK, envelope, fe_tx, fe_operations, signVars>>

\* Lines 78-106: the header.  Decoding the text memo raises when its bytes
\* are not UTF-8.
FromEnvelopeHeader ==
    /\ fe_pc = "entry"
    /\ HAVE_STELLAR_SDK
    /\ IF envelope.memo.kind = "TextMemo" /\ ~envelope.memo.utf8
       THEN /\ fe_exc' = "UnicodeDecodeError"
            /\ fe_pc' = "raised"
            /\ UNCHANGED fe_tx
       ELSE /\ fe_tx' = [memo_type |-> MemoType(envelope.memo),
                         num_operations |-> Len(envelope.operations)]
            /\ fe_pc' = "operations"
            /\ UNCHANGED fe_exc
    /\ UNCHANGED <<HAVE_STELLAR_SDK, envelope, fe_operations, signVars>>

\* Line 107, one element of the list comprehension: the next operation of
\* the envelope is read; an exception ends from_envelope.
FromEnvelopeReadOperation ==
    /\ fe_pc = "operations"
    /\ Len(fe_operations) < Len(envelope.operations)
    /\ LET r == ReadOperation(envelope.operations[Len(fe_operations) + 1])
       IN  IF r.ok
           THEN /\ fe_operations' = Append(fe_operations, r.msg)
                /\ UNCHANGED <<fe_pc, fe_exc>>
           ELSE /\ fe_exc' = r.exc
                /\ fe_pc' = "raised"
                /\ UNCHANGED fe_operations
    /\ UNCHANGED <<HAVE_STELLAR_SDK, envelope, fe_tx, signVars>>

\* Line 108: return tx, operations.
FromEnvelopeReturn ==
    /\ fe_pc = "operations"
    /\ Len(fe_operations) = Len(envelope.operations)
    /\ fe_pc' = "returned"
    /\ UNCHANGED <<HAVE_STELLAR_SDK, envelope, fe_tx, fe_operations, fe_exc, signVars>>

EnvNext ==
    \/ FromEnvelopeNoSdk
    \/ FromEnvelopeHeader
    \/ FromEnvelopeReadOperation
    \/ FromEnvelopeReturn

EnvSpec == EnvInit /\ [][EnvNext]_vars

\* ------------------------------------------------- observers of a call
N == Len(orig)

OpRequest == [type |-> "StellarTxOpRequest", sig |-> None]
SignedTx(s) == [type |-> "StellarSignedTx", sig |-> s]

\* The response the remote gave to the last message sent, when it has.
Answered == Len(received) >= 1 /\ Len(received) = Len(sent)
LastReceived == received[Len(received)]

\* Number of request-next signals received, number of elements removed.
NumRequests == Cardinality({i \in 1..Len(received) : received[i] = OpRequest})
NumPopped == Len(orig) - Len(operations)

\* The remote asked for exactly the N operations and then signed.
WellFormedExchange ==
    /\ Len(received) = N + 1
    /\ \A i \in 1..N : received[i] = OpRequest
    /\ received[N + 1].type = "StellarSignedTx"

\* ---------------------------------------------------------------- claims

\* C1: when the remote answers the header and the first N-1 operations
\* with a request-next signal and the N-th operation (the header when
\* N = 0) with the signed result, sign_tx does not fail, has emptied the
\* queue, goes on to Done and returns exactly that signed result.
C1_WellFormedReturnsResult ==
    /\ [](WellFormedExchange =>
            /\ pc \in {"loop", "done"}
            /\ operations = <<>>
            /\ (pc = "done" => outcome = Return(received[N + 1])))
    /\ (WellFormedExchange ~> pc = "done")

C1_Witness ==
    /\ pc = "done"
    /\ WellFormedExchange
    /\ N >= 2
    /\ outcome = Return(SignedTx("sigB"))

\* C2: sign_tx returns a result only if the last response received is the
\* signed result, the queue is empty, all N operations have been sent and
\* exactly N request-next signals came before it; Done and a returned
\* value go together.
C2_ReturnOnlyWhenAllConsumed ==
    /\ (pc = "done" <=> outcome.kind = "return")
    /\ (outcome.kind = "return" =>
            /\ Answered
            /\ LastReceived.type = "StellarSignedTx"
            /\ outcome.value = LastReceived
            /\ operations = <<>>
            /\ Len(sent) = N + 1
            /\ \A i \in 1..N : sent[i + 1].kind = "op" /\ sent[i + 1].body = orig[i]
            /\ NumRequests = N
            /\ \A i \in 1..N : received[i] = OpRequest)

C2_Witness ==
    /\ outcome.kind = "return"
    /\ N >= 1
    /\ Len(sent) = N + 1
    /\ operations = <<>>

\* C3: the operations handed to the transport so far are a prefix of the
\* supplied list, position by position; the header is the first message
\* sent and the only header.
C3_SentIsPrefixOfSupplied ==
    /\ (pc # "entry" => Len(sent) >= 1)
    /\ (Len(sent) >= 1 => sent[1].kind = "header")
    /\ Len(sent) <= N + 1
    /\ \A i \in 2..Len(sent) : sent[i].kind = "op" /\ sent[i].body = orig[i - 1]

C3_Witness ==
    /\ Len(sent) = 3
    /\ orig[1] # orig[2]
    /\ sent[2].body = orig[1]
    /\ sent[3].body = orig[2]

\* C4: a request-next signal that arrives when the queue is empty makes
\* the exchange fail, as its next step, with the TrezorException "Reached
\* end of operations without a signature." and nothing is sent.
C4_RequestOnEmptyQueueIsExhausted ==
    [][(pc = "loop" /\ Answered /\ LastReceived = OpRequest /\ operations = <<>>)
         => (/\ pc' = "failed"
             /\ outcome' = Raise(ExhaustedError)
             /\ Len(sent') = Len(sent))]_vars

C4_Witness ==
    /\ pc = "failed"
    /\ Answered
    /\ LastReceived = OpRequest
    /\ operations = <<>>
    /\ outcome = Raise(ExhaustedError)
    /\ N >= 1

\* C5: a signed result that arrives while operations are still in the
\* queue makes the exchange fail, as its next step, with the
\* TrezorException "Received a signature before processing all
\* operations."; the result is not returned.
C5_SignatureBeforeAllSentIsPremature ==
    [][(pc = "loop" /\ Answered /\ LastReceived.type = "StellarSignedTx"
           /\ Len(operations) > 0)
         => (/\ pc' = "failed"
             /\ outcome' = Raise(PrematureError)
             /\ outcome'.kind # "return")]_vars

C5_Witness ==
    /\ pc = "failed"
    /\ outcome = Raise(PrematureError)
    /\ LastReceived.type = "StellarSignedTx"
    /\ Len(operations) = 1
    /\ N >= 2

\* C6: a first response that is neither a request-next signal nor a
\* signed result makes the exchange fail, as its next step, with the
\* TrezorException "Unexpected message: <class>"; no operation is sent or
\* removed from the queue.
C6_UnexpectedFirstResponse ==
    [][(pc = "loop" /\ Len(received) = 1
           /\ received[1].type \notin {"StellarTxOpRequest", "StellarSignedTx"})
         => (/\ pc' = "failed"
             /\ outcome' = Raise(UnexpectedError(received[1]))
             /\ Len(sent') = 1
             /\ operations' = orig)]_vars

C6_Witness ==
    /\ pc = "failed"
    /\ Len(received) = 1
    /\ received[1].type = "ButtonRequest"
    /\ outcome = Raise(UnexpectedError(received[1]))
    /\ Len(sent) = 1
    /\ N >= 1

\* C7: whenever client.call raises, sign_tx ends with exactly the
\* exception that was raised, unchanged in class and content.
C7_TransportErrorVerbatim ==
    terr # NoErr => (pc = "failed" /\ outcome = Raise(terr))

\* C8: sends and receives alternate starting with the header: sends minus
\* completed receives is 0 or 1, a message is sent only when every earlier
\* one has been answered, what was sent stays as it was, nothing is sent
\* after the transport raised, and there are at most N + 1 sends.
C8_SendsAndReceivesAlternate ==
    /\ [](/\ Len(sent) - Len(received) \in {0, 1}
          /\ Len(sent) <= N + 1
          /\ (pc = "call" <=> Len(sent) - Len(received) = 1 /\ terr = NoErr))
    /\ [][(call' = call /\ Len(sent') # Len(sent))
            => (/\ Len(sent') = Len(sent) + 1
                /\ Len(received) = Len(sent)
                /\ terr = NoErr
                /\ \A i \in 1..Len(sent) : sent'[i] = sent[i])]_vars
    /\ [][(call' = call /\ Len(received') # Len(received))
            => (/\ Len(received') = Len(received) + 1
                /\ Len(sent) = Len(received) + 1)]_vars

C8_Witness ==
    /\ Len(sent) = N + 1
    /\ Len(received) = N
    /\ N >= 2
    /\ pc = "call"

\* C9: an element leaves the queue only in answer to a request-next
\* signal: removals never outnumber the signals received, and each removal
\* takes one element, right after a request-next signal that was the
\* answer to the last message sent and that no removal has used before.
C9_RemovalOnlyOnRequest ==
    /\ [](NumPopped <= NumRequests)
    /\ [][(call' = call /\ operations' # operations)
            => (/\ Len(operations') = Len(operations) - 1
                /\ Answered
                /\ LastReceived = OpRequest
                /\ NumPopped + 1 = NumRequests)]_vars

C9_Witness ==
    /\ NumPopped = 2
    /\ NumRequests = 2
    /\ pc = "call"

\* C10: every call of sign_tx ends: it reaches Done or Failed, after at
\* most N + 1 sends, and has one outcome, a returned result or a raised
\* exception, which does not change afterwards.
C10_ExchangeTerminatesWithOneOutcome ==
    /\ (pc \notin Terminal ~> pc \in Terminal)
    /\ [](Len(sent) <= N + 1)
    /\ [](/\ (pc = "done" <=> outcome.kind = "return")
          /\ (pc = "failed" <=> outcome.kind = "raise")
          /\ (pc \notin Terminal <=> outcome = NoOutcome))
    /\ [][(call' = call /\ outcome # NoOutcome) => outcome' = outcome]_vars

C10_Witness ==
    /\ pc = "failed"
    /\ outcome = Raise(ExhaustedError)
    /\ Len(sent) = N + 1
    /\ Len(received) = N + 1
    /\ N = 2

\* C11 (as stated): when sign_tx ends, in Done or in Failed, the caller's
\* operations list is empty.
C11_ListEmptyAtEnd ==
    pc \in Terminal => operations = <<>>

\* C11 (amended): when sign_tx ends in Done the list is empty; when it
\* ends in Failed the list holds exactly the operations not yet sent, and
\* only a Failed end leaves operations in it.
C11_ListAtEndIsUnsentSuffix ==
    pc \in Terminal =>
        /\ (pc = "done" => operations = <<>>)
        /\ operations = SubSeq(orig, Len(sent), N)
        /\ (operations # <<>> => outcome.kind = "raise")

C11_Witness ==
    /\ pc = "failed"
    /\ Len(operations) = 2
    /\ Len(sent) = 2
    /\ N = 3

\* C12: Done and Failed are terminal: from either, the call sends and
\* receives nothing more, leaves the queue, the header and the outcome as
\* they are and never goes back to an earlier position; the only thing
\* that follows is a new call, which starts at its entry with nothing sent.
C12_DoneAndFailedAreTerminal ==
    [][(pc \in Terminal) =>
         (\/ UNCHANGED <<pc, outcome, sent, received, operations, tx>>
          \/ (/\ call' = call + 1
              /\ pc' = "entry"
              /\ outcome' = NoOutcome
              /\ sent' = <<>>
              /\ received' = <<>>))]_vars

C12_Witness ==
    /\ call = 2
    /\ prev_pc = "failed"
    /\ pc = "done"
    /\ N >= 1

\* C13 (as stated): sign_tx leaves the header unchanged from entry to exit.
C13_HeaderUnchanged ==
    pc \in Terminal => tx = tx_entry

\* C13 (amended): besides the queue, sign_tx changes three fields of the
\* header, network_passphrase, address_n and num_operations, which it
\* assigns before the header is sent; every other field of the header and
\* the arguments stay as they were on entry.
C13_HeaderChangesThreeFields ==
    /\ [](pc = "entry" => tx = tx_entry)
    /\ [](pc # "entry" =>
            tx = [tx_entry EXCEPT !.network_passphrase = network_passphrase,
                                  !.address_n = address_n,
                                  !.num_operations = N])
    /\ [][call' = call => UNCHANGED <<address_n, network_passphrase, tx_entry>>]_vars

C13_Witness ==
    /\ pc \in Terminal
    /\ tx # tx_entry
    /\ tx.fee = tx_entry.fee
    /\ tx_entry.address_n = None
    /\ tx.address_n = address_n

\* C14: after at least one operation was requested, a response that is
\* neither a request-next signal nor a signed result makes the exchange
\* fail, as its next step, with "Unexpected message: <class>", whether the
\* queue is empty or not; nothing more is sent or removed.
C14_UnexpectedResponseInLoop ==
    [][(pc = "loop" /\ Len(received) >= 2
           /\ LastReceived.type \notin {"StellarTxOpRequest", "StellarSignedTx"})
         => (/\ pc' = "failed"
             /\ outcome' = Raise(UnexpectedError(LastReceived))
             /\ outcome' # Raise(PrematureError)
             /\ Len(sent') = Len(sent)
             /\ operations' = operations)]_vars

C14_Witness ==
    /\ pc = "failed"
    /\ Len(received) = 2
    /\ LastReceived.type = "StellarAddress"
    /\ Len(operations) >= 1
    /\ outcome = Raise(UnexpectedError(LastReceived))

\* C15: at every state the operations already sent followed by the queue
\* are the list as supplied; within a call the queue never grows and loses
\* exactly one element, its front, with each operation sent.
C15_SentThenQueueIsSupplied ==
    /\ [](/\ Len(operations) + (IF Len(sent) = 0 THEN 0 ELSE Len(sent) - 1) = N
          /\ \A i \in 1..Len(operations) : operations[i] = orig[N - Len(operations) + i]
          /\ \A i \in 2..Len(sent) : sent[i].body = orig[i - 1])
    /\ [][call' = call =>
            (/\ Len(operations') <= Len(operations)
             /\ (Len(sent') # Len(sent) /\ Len(sent) >= 1
                   => Len(operations') = Len(operations) - 1)
             /\ (Len(sent') = Len(sent) \/ Len(sent) = 0
                   => operations' = operations))]_vars

C15_Witness ==
    /\ pc = "failed"
    /\ terr # NoErr
    /\ Len(sent) = 3
    /\ Len(operations) = 1
    /\ operations[1] = orig[3]

\* C16: the header that is sent declares as num_operations the length the
\* list had on entry, whatever the caller had stored there, and the header
\* object stays equal to what was sent for the rest of the call.
C16_HeaderDeclaresListLength ==
    Len(sent) >= 1 =>
        /\ sent[1].kind = "header"
        /\ sent[1].body.num_operations = N
        /\ tx = sent[1].body

C16_Witness ==
    /\ pc \in Terminal
    /\ Len(sent) >= 2
    /\ tx_entry.num_operations # N
    /\ sent[1].body.num_operations = N

\* C17: a call given the list object of the previous call works on what
\* that call left in it: the k operations left are the last k supplied,
\* the header declares k, and only those are sent, in order; after a
\* successful call k = 0 and no operation is sent.
C17_SecondCallOnSameList ==
    reused =>
        /\ N <= Len(supplied)
        /\ \A i \in 1..N : orig[i] = supplied[Len(supplied) - N + i]
        /\ (Len(sent) >= 1 => sent[1].body.num_operations = N)
        /\ Len(sent) <= N + 1
        /\ \A i \in 2..Len(sent) :
              sent[i].body = supplied[Len(supplied) - N + i - 1]
        /\ (prev_pc = "done" => N = 0)

C17_Witness ==
    /\ reused
    /\ pc = "done"
    /\ N >= 1
    /\ Len(sent) - 1 < Len(supplied)
    /\ sent[1].body.num_operations = N

\* C18: the end of a call that was given its own list is a function of
\* that call's header, arguments, list and the responses (or exception) it
\* got from client.call; how an earlier call ended does not enter.
C18_CallDependsOnOwnInputsOnly ==
    LET reqs == Cardinality({i \in 1..Len(received) : received[i] = OpRequest})
        k == IF reqs < Len(orig) THEN reqs ELSE Len(orig)
        last == received[Len(received)]
        expected ==
            IF terr # NoErr
            THEN IF terr.exc = "IndexError" /\ Len(received) >= 1
                 THEN Raise(ExhaustedError)
                 ELSE Raise(terr)
            ELSE IF last = OpRequest THEN Raise(ExhaustedError)
            ELSE IF last.type # "StellarSignedTx" THEN Raise(UnexpectedError(last))
            ELSE IF reqs < Len(orig) THEN Raise(PrematureError)
            ELSE Return(last)
    IN  (~reused /\ pc \in Terminal) =>
            /\ sent[1].body = [network_passphrase |-> network_passphrase,
                               address_n |-> address_n,
                               num_operations |-> Len(orig),
                               fee |-> tx_entry.fee]
            /\ Len(sent) = k + 1
            /\ \A i \in 1..k : sent[i + 1].body = orig[i]
            /\ operations = SubSeq(orig, k + 1, Len(orig))
            /\ outcome = expected

C18_Witness ==
    /\ call = 2
    /\ ~reused
    /\ prev_pc = "failed"
    /\ tx_entry.num_operations # N
    /\ pc = "done"
    /\ N >= 2

\* The operation classes _read_operation converts, and the message class
\* of each.
ConvertedAs ==
    [t \in {"CreateAccount", "Payment", "PathPaymentStrictReceive", "ManageSellOffer",
            "CreatePassiveSellOffer", "SetOptions", "ChangeTrust", "AllowTrust",
            "AccountMerge", "ManageData", "BumpSequence"} |->
       CASE t = "CreateAccount" -> "StellarCreateAccountOp"
         [] t = "Payment" -> "StellarPaymentOp"
         [] t = "PathPaymentStrictReceive" -> "StellarPathPaymentOp"
         [] t = "ManageSellOffer" -> "StellarManageOfferOp"
         [] t = "CreatePassiveSellOffer" -> "StellarCreatePassiveOfferOp"
         [] t = "SetOptions" -> "StellarSetOptionsOp"
         [] t = "ChangeTrust" -> "StellarChangeTrustOp"
         [] t = "AllowTrust" -> "StellarAllowTrustOp"
         [] t = "AccountMerge" -> "StellarAccountMergeOp"
         [] t = "ManageData" -> "StellarManageDataOp"
         [] t = "BumpSequence" -> "StellarBumpSequenceOp"]

AllTypesSupported ==
    \A i \in 1..Len(envelope.operations) :
        envelope.operations[i].type \in DOMAIN ConvertedAs

\* The values _read_operation accepts in an operation of a supported type.
ValuesSupported(op) ==
    /\ (op.asset # None =>
          op.asset \in {"native", "credit_alphanum4", "credit_alphanum12"})
    /\ (op.signer # None =>
          op.signer \in {"SIGNER_KEY_TYPE_ED25519", "SIGNER_KEY_TYPE_HASH_X",
                         "SIGNER_KEY_TYPE_PRE_AUTH_TX"})
    /\ (op.authorize # None =>
          op.authorize \in {"UNAUTHORIZED_FLAG", "AUTHORIZED_FLAG"})

AllValuesSupported ==
    \A i \in 1..Len(envelope.operations) : ValuesSupported(envelope.operations[i])

\* What from_envelope returns for the envelope: the count, one message per
\* operation in the envelope's order, and the memo type of the memo.
ReturnedHeaderAndList ==
    /\ fe_pc = "returned"
    /\ fe_tx.num_operations = Len(envelope.operations)
    /\ Len(fe_operations) = Len(envelope.operations)
    /\ \A i \in 1..Len(fe_operations) :
          fe_operations[i].type = ConvertedAs[envelope.operations[i].type]
    /\ fe_tx.memo_type =
          (CASE envelope.memo.kind = "TextMemo" -> 1
             [] envelope.memo.kind = "IdMemo" -> 2
             [] envelope.memo.kind = "HashMemo" -> 3
             [] envelope.memo.kind = "ReturnHashMemo" -> 4
             [] OTHER -> 0)

FromEnvelopeEnded == fe_pc \in {"returned", "raised"}

\* C19 (as stated): for every envelope whose operations are all of
\* supported types from_envelope returns the header and the list; if an
\* operation is of an unsupported type it raises ValueError.
C19_SupportedTypesAlwaysConvert ==
    (FromEnvelopeEnded /\ HAVE_STELLAR_SDK) =>
        IF AllTypesSupported
        THEN ReturnedHeaderAndList
        ELSE fe_pc = "raised" /\ fe_exc = "ValueError"

\* C19 (amended): with the SDK available and a text memo that is valid
\* UTF-8, from_envelope returns the header and the list when every
\* operation is of a supported type and carries supported values (asset
\* type, signer key type, trust line flag); when an operation is of an
\* unsupported type or carries an unsupported value it raises ValueError
\* and returns nothing.
C19_SupportedTypesAndValuesConvert ==
    (FromEnvelopeEnded /\ HAVE_STELLAR_SDK
       /\ ~(envelope.memo.kind = "TextMemo" /\ ~envelope.memo.utf8)) =>
        IF AllTypesSupported /\ AllValuesSupported
        THEN ReturnedHeaderAndList
        ELSE fe_pc = "raised" /\ fe_exc = "ValueError"

C19_Witness ==
    /\ ReturnedHeaderAndList
    /\ Len(envelope.operations) = 2
    /\ envelope.operations[1].type = "AllowTrust"
    /\ envelope.operations[2].type = "Payment"
    /\ envelope.memo.kind = "ReturnHashMemo"

====
